---- MODULE Spec2Model ----
(***************************************************************************)
(* A model of augments_mcp/mcp_web_server.py: the application lifecycle    *)
(* (lifespan), the JSON-RPC dispatch of the /sse endpoint (sse_generator,  *)
(* process_message, the method handlers, handle_tools_call), and the       *)
(* documentation cache core the tool implementations call into (tiered     *)
(* cache store and refresh coordinator).                                   *)
(*                                                                         *)
(* Python values: atoms (str, int, bool, None) are strings holding their   *)
(* literal; a dict is a function over its keys; an Optional dict or        *)
(* object is a sequence of length 0 (None) or 1 (the value).               *)
(***************************************************************************)
EXTENDS Integers, Sequences, FiniteSets, TLC

None == "None"
EmptyDict == [k \in {} |-> None]
NoneObj == << >>
Some(v) == << v >>

(***************************************************************************)
(* Module-level tables of mcp_web_server.py                                *)
(***************************************************************************)

\* The "name" of every entry of TOOLS, in the order of the table.
TOOLS ==
    << "list_available_frameworks", "search_frameworks", "get_framework_info",
       "get_framework_docs", "get_framework_examples", "search_documentation",
       "get_framework_context", "analyze_code_compatibility",
       "check_framework_updates", "refresh_framework_cache",
       "get_cache_stats", "get_registry_stats" >>

ToolNames == { TOOLS[i] : i \in 1..Len(TOOLS) }

\* The keys of METHOD_HANDLERS.
METHOD_HANDLERS ==
    { "initialize", "initialized", "tools/list", "tools/call", "completion/complete" }

DefaultRedisUrl == "redis://localhost:6379/0"

(***************************************************************************)
(* State                                                                   *)
(***************************************************************************)
VARIABLES
    \* the process environment and the collaborators' behaviour at startup
    env,
    \* lifespan: "starting", "ready" (yielded), "failed" (raised), "stopped"
    phase,
    \* the module's global instances
    redis_client, registry_manager, doc_cache, github_provider, website_provider,
    redis_closed,
    \* the /sse endpoint: the last request body, the outcome of the tool
    \* implementation it reached, the tool implementation invoked and the
    \* events the generator emitted
    lastBody, lastOutcome, lastCall, events,
    \* the documentation cache core
    \* the clock read by the cache
    now,
    \* Tiered Cache Store: key -> None or Some(CacheEntry), per tier
    localTier, remoteTier,
    \* RefreshTicket map: key -> None or Some(ticket)
    tickets,
    \* CacheStatistics
    stats,
    \* the number of Content Provider invocations so far
    fetchCount,
    \* request-handling tasks: position, the getOrRefresh call in progress,
    \* the fetch the call owns or is attached to (0: none), the call's result
    pc, call, attached, result,
    \* the ttl configured for new entries
    ttlConfig,
    \* history: the local tier's entry for the key when the call was issued,
    \* whether it was stale and whether both tiers were empty, and the pairs of
    \* calls that were in progress at a same instant
    atCall, overlap

coreVars == << now, localTier, remoteTier, tickets, stats, fetchCount,
               pc, call, attached, result, ttlConfig, atCall, overlap >>

serverVars == << env, phase, redis_client, registry_manager, doc_cache,
                 github_provider, website_provider, redis_closed,
                 lastBody, lastOutcome, lastCall, events >>

(***************************************************************************)
(* lifespan                                                                *)
(***************************************************************************)

\* os.getenv("REDIS_URL", default)
get_redis_url(e) == IF e.REDIS_URL = None THEN DefaultRedisUrl ELSE e.REDIS_URL

\* The value of the global redis_client after the "Initialize Redis" block:
\* it is set only when the URL is not the default one and both from_url and
\* ping succeed; the except branch resets it to None.
RedisAfterInitBug(e) ==
    IF get_redis_url(e) # DefaultRedisUrl
    THEN IF e.redis = "connect_fails" THEN None ELSE "client"
    ELSE None

RedisAfterInit(e) ==
    IF get_redis_url(e) # DefaultRedisUrl
    THEN IF e.redis = "ok" THEN "client" ELSE None
    ELSE None

\* registry_manager.initialize() raising (the registry's catalog failed to load).
InitializeRaises(e) == e.registry = "fails"

\* The outer except clause: logs and re-raises, so lifespan never yields.
LifespanReraisesBug(raised) == FALSE

LifespanReraises(raised) == raised

Environments ==
    [ REDIS_URL : { None, DefaultRedisUrl, "redis://cache:6379/0" },
      redis     : { "ok", "connect_fails", "ping_fails" },
      registry  : { "ok", "fails" } ]

\* lifespan up to its yield. No request is served before it yields, so no
\* other code observes the intermediate values of the globals.
LifespanStartup ==
    /\ phase = "starting"
    /\ redis_client' = RedisAfterInit(env)
    /\ IF InitializeRaises(env)
       THEN \* FrameworkRegistryManager() was constructed, initialize() raised:
            \* the rest of the try block is skipped
            /\ registry_manager' = "constructed"
            /\ phase' = IF LifespanReraises(TRUE) THEN "failed" ELSE "ready"
            /\ UNCHANGED << doc_cache, github_provider, website_provider >>
       ELSE /\ registry_manager' = "initialized"
            /\ doc_cache' = Some([ redis_client |-> redis_client' ])
            /\ github_provider' = "GitHubProvider"
            /\ website_provider' = "WebsiteProvider"
            /\ phase' = "ready"
    /\ UNCHANGED << env, redis_closed, lastBody, lastOutcome, lastCall, events >>
    /\ UNCHANGED coreVars

\* lifespan after its yield.
LifespanShutdown ==
    /\ phase = "ready"
    /\ phase' = "stopped"
    /\ redis_closed' = (redis_client # None)
    /\ UNCHANGED << env, redis_client, registry_manager, doc_cache, github_provider,
                    website_provider, lastBody, lastOutcome, lastCall, events >>
    /\ UNCHANGED coreVars

(***************************************************************************)
(* JSON-RPC: requests, responses                                           *)
(***************************************************************************)

\* dict.get(key, default) and the presence test of dict[key]
Get(d, k, default) == IF k \in DOMAIN d THEN d[k] ELSE default

\* JsonRpcResponse(id=..., result=..., error=...): result and error are
\* Optional, None when not given.
JsonRpcResponse(id, res, err) == [ id |-> id, result |-> res, error |-> err ]

Error(code, message) == Some([ code |-> code, message |-> message ])

\* response.model_dump(exclude_none=True): the keys that remain. jsonrpc is
\* never None; id, result and error are dropped when None.
model_dump_exclude_none(r) ==
    { "jsonrpc" }
      \cup (IF r.id # None THEN { "id" } ELSE {})
      \cup (IF r.result # NoneObj THEN { "result" } ELSE {})
      \cup (IF r.error # NoneObj THEN { "error" } ELSE {})

\* response.model_dump(): every field, None included.
model_dump(r) == { "jsonrpc", "id", "result", "error" }

\* One "data: ...\n\n" event: the keys of the JSON object and their values.
Event(keys, r) == [ keys |-> keys, id |-> r.id, result |-> r.result, error |-> r.error ]

\* A handler's outcome: it returns value, or raises an exception whose str()
\* is msg; call is the tool implementation it invoked, if any.
Return(value, inv) == [ raised |-> FALSE, value |-> value, msg |-> None, call |-> inv ]
Raise(msg, inv)    == [ raised |-> TRUE, value |-> NoneObj, msg |-> msg, call |-> inv ]

Result(type, tools) == Some([ type |-> type, tools |-> tools ])

handle_initialize(params) == Return(Result("initialize", << >>), NoneObj)

handle_initialized(params) == Return(NoneObj, NoneObj)

handle_tools_list(params) == Return(Result("tools", TOOLS), NoneObj)

handle_completion_complete(params) == Return(Result("completion", << >>), NoneObj)

(***************************************************************************)
(* handle_tools_call                                                       *)
(***************************************************************************)

\* The tool names tested by the if/elif chain, in its order.
DispatchBranches ==
    << "list_available_frameworks", "search_frameworks", "get_framework_info",
       "get_framework_docs", "get_framework_examples", "search_documentation",
       "get_framework_context", "analyze_code_compatibility",
       "check_framework_updates", "refresh_framework_cache",
       "get_cache_stats", "get_registry_stats" >>

DispatchNamesBug == { DispatchBranches[i] : i \in 1..Len(DispatchBranches) - 1 }

DispatchNames == { DispatchBranches[i] : i \in 1..Len(DispatchBranches) }

\* The implementation function each branch awaits.
Implementation(tool_name) ==
    CASE tool_name = "list_available_frameworks"  -> "framework_discovery.list_available_frameworks"
      [] tool_name = "search_frameworks"          -> "framework_discovery.search_frameworks"
      [] tool_name = "get_framework_info"         -> "framework_discovery.get_framework_info"
      [] tool_name = "get_framework_docs"         -> "documentation.get_framework_docs"
      [] tool_name = "get_framework_examples"     -> "documentation.get_framework_examples"
      [] tool_name = "search_documentation"       -> "documentation.search_documentation"
      [] tool_name = "get_framework_context"      -> "context_enhancement.get_framework_context"
      [] tool_name = "analyze_code_compatibility" -> "context_enhancement.analyze_code_compatibility"
      [] tool_name = "check_framework_updates"    -> "updates.check_framework_updates"
      [] tool_name = "refresh_framework_cache"    -> "updates.refresh_framework_cache"
      [] tool_name = "get_cache_stats"            -> "updates.get_cache_statistics"
      [] tool_name = "get_registry_stats"         -> "framework_discovery.get_registry_stats"

\* The keys a branch reads as tool_params["key"] (KeyError when missing).
Subscripted(tool_name) ==
    CASE tool_name = "search_frameworks"          -> { "query" }
      [] tool_name = "get_framework_info"         -> { "framework" }
      [] tool_name = "get_framework_docs"         -> { "framework" }
      [] tool_name = "get_framework_examples"     -> { "framework" }
      [] tool_name = "search_documentation"       -> { "framework", "query" }
      [] tool_name = "get_framework_context"      -> { "frameworks", "task_description" }
      [] tool_name = "analyze_code_compatibility" -> { "code", "frameworks" }
      [] tool_name = "check_framework_updates"    -> { "framework" }
      [] OTHER -> {}

\* The branches that never evaluate tool_params.
IgnoresToolParams(tool_name) == tool_name \in { "get_cache_stats", "get_registry_stats" }

\* The defaults of tool_params.get(key, default).
DefaultUseCache == "True"
DefaultLimitBug == "5"
DefaultLimit == "10"
DefaultForce == "False"

Providers == [ github_provider |-> github_provider, website_provider |-> website_provider ]

\* The keyword arguments a branch passes to its implementation; tp is a dict
\* holding every key of Subscripted(tool_name).
Kwargs(tool_name, tp) ==
    CASE tool_name = "list_available_frameworks" ->
            [ registry |-> registry_manager, category |-> Get(tp, "category", None) ]
      [] tool_name = "search_frameworks" ->
            [ registry |-> registry_manager, query |-> tp["query"] ]
      [] tool_name = "get_framework_info" ->
            [ registry |-> registry_manager, framework |-> tp["framework"] ]
      [] tool_name = "get_framework_docs" ->
            [ registry |-> registry_manager, cache |-> doc_cache,
              framework |-> tp["framework"],
              section |-> Get(tp, "section", None),
              use_cache |-> Get(tp, "use_cache", DefaultUseCache) ] @@ Providers
      [] tool_name = "get_framework_examples" ->
            [ registry |-> registry_manager, cache |-> doc_cache,
              framework |-> tp["framework"],
              pattern |-> Get(tp, "pattern", None) ] @@ Providers
      [] tool_name = "search_documentation" ->
            [ cache |-> doc_cache,
              framework |-> tp["framework"],
              query |-> tp["query"],
              limit |-> Get(tp, "limit", DefaultLimit) ]
      [] tool_name = "get_framework_context" ->
            [ registry |-> registry_manager, cache |-> doc_cache,
              frameworks |-> tp["frameworks"],
              task_description |-> tp["task_description"] ] @@ Providers
      [] tool_name = "analyze_code_compatibility" ->
            [ registry |-> registry_manager,
              code |-> tp["code"],
              frameworks |-> tp["frameworks"] ]
      [] tool_name = "check_framework_updates" ->
            [ registry |-> registry_manager, cache |-> doc_cache,
              framework |-> tp["framework"] ]
      [] tool_name = "refresh_framework_cache" ->
            [ registry |-> registry_manager, cache |-> doc_cache,
              framework |-> Get(tp, "framework", None),
              force |-> Get(tp, "force", DefaultForce) ] @@ Providers
      [] tool_name = "get_cache_stats" ->
            [ cache |-> doc_cache ]
      [] tool_name = "get_registry_stats" ->
            [ registry |-> registry_manager ]

\* outcome is what the awaited implementation does: it returns a value or raises.
\* The implementations are typed Any: "datetime" is a returned value that holds
\* an object json.dumps cannot encode.
ToolOutcomes ==
    { [ raises |-> FALSE, value |-> "content" ],
      [ raises |-> FALSE, value |-> "empty" ],
      [ raises |-> FALSE, value |-> "datetime" ],
      [ raises |-> TRUE,  value |-> "FetchError" ] }

UnknownTool(tool_name, inv) == Raise("Unknown tool", inv)

\* params is None or Some(dict); the dict's "arguments", when present, is
\* None (JSON null) or Some(dict).
handle_tools_call(params, outcome) ==
    IF params = NoneObj \/ params[1] = EmptyDict \/ "name" \notin DOMAIN params[1]
    THEN Raise("Tool name is required", NoneObj)
    ELSE LET tool_name   == params[1]["name"]
             tool_params == Get(params[1], "arguments", Some(EmptyDict))
         IN  IF tool_name \notin DispatchNames
             THEN UnknownTool(tool_name, NoneObj)
             ELSE IF IgnoresToolParams(tool_name)
             THEN LET inv == Some([ fn |-> Implementation(tool_name),
                                    kwargs |-> Kwargs(tool_name, EmptyDict) ])
                  IN  IF outcome.raises THEN Raise(outcome.value, inv)
                      ELSE Return(Result(outcome.value, << >>), inv)
             ELSE IF tool_params = NoneObj
             THEN \* None.get(...) raises AttributeError, None[...] TypeError
                  Raise("AttributeError", NoneObj)
             ELSE IF ~(Subscripted(tool_name) \subseteq DOMAIN tool_params[1])
             THEN Raise("KeyError", NoneObj)
             ELSE LET inv == Some([ fn |-> Implementation(tool_name),
                                    kwargs |-> Kwargs(tool_name, tool_params[1]) ])
                  IN  IF outcome.raises THEN Raise(outcome.value, inv)
                      ELSE Return(Result(outcome.value, << >>), inv)

(***************************************************************************)
(* process_message, sse_generator                                          *)
(***************************************************************************)

Handler(method, params, outcome) ==
    CASE method = "initialize"          -> handle_initialize(params)
      [] method = "initialized"         -> handle_initialized(params)
      [] method = "tools/list"          -> handle_tools_list(params)
      [] method = "tools/call"          -> handle_tools_call(params, outcome)
      [] method = "completion/complete" -> handle_completion_complete(params)

HandlerErrorBug(id, h) == JsonRpcResponse(id, NoneObj, NoneObj)

\* The except clause of process_message.
HandlerError(id, h) == JsonRpcResponse(id, NoneObj, Error(-32603, h.msg))

\* The response and the tool implementation invoked on the way.
process_message(message, outcome) ==
    IF message.method \notin METHOD_HANDLERS
    THEN [ response |-> JsonRpcResponse(message.id, NoneObj, Error(-32601, "Method not found")),
           call |-> NoneObj ]
    ELSE LET h == Handler(message.method, message.params, outcome)
         IN  IF h.raised
             THEN [ response |-> HandlerError(message.id, h), call |-> h.call ]
             ELSE [ response |-> JsonRpcResponse(message.id, h.value, NoneObj),
                    call |-> h.call ]

\* json.dumps(response_data) raising TypeError: the dumped result holds an
\* object that is not JSON serializable.
JsonDumpsRaises(r) == r.result # NoneObj /\ r.result[1].type = "datetime"

\* The except Exception clause of sse_generator: the response is built without
\* an id.
InternalError == JsonRpcResponse(None, NoneObj, Error(-32603, "Internal error"))

\* body.kind: "invalid_json" (json.loads raises JSONDecodeError),
\* "invalid_request" (JsonRpcRequest(**data) raises), "request".
sse_generator(body, outcome) ==
    CASE body.kind = "invalid_json" ->
            LET r == JsonRpcResponse(None, NoneObj, Error(-32700, "Parse error"))
            IN  [ events |-> << Event(model_dump(r), r) >>, call |-> NoneObj ]
      [] body.kind = "invalid_request" ->
            [ events |-> << Event(model_dump(InternalError), InternalError) >>,
              call |-> NoneObj ]
      [] body.kind = "request" ->
            LET p == process_message(body, outcome)
            IN  IF JsonDumpsRaises(p.response)
                THEN \* raised inside the try block, before the yield
                     [ events |-> << Event(model_dump(InternalError), InternalError) >>,
                       call |-> p.call ]
                ELSE [ events |-> << Event(model_dump_exclude_none(p.response), p.response) >>,
                       call |-> p.call ]

\* body.decode() raising UnicodeDecodeError: the posted bytes are not UTF-8.
DecodeRaises(body) == body.kind = "undecodable"

\* sse_endpoint: the body is decoded before the generator is created; when
\* the decoding raises, the endpoint raises, the response is the framework's
\* 500 and no event is streamed.
sse_endpoint(body, outcome) ==
    IF DecodeRaises(body)
    THEN [ events |-> << >>, call |-> NoneObj ]
    ELSE sse_generator(body, outcome)

(***************************************************************************)
(* The /sse endpoint and the requests posted to it                         *)
(***************************************************************************)

\* The properties of each tool's inputSchema in TOOLS.
SchemaProperties(tool_name) ==
    CASE tool_name = "list_available_frameworks"  -> { "category" }
      [] tool_name = "search_frameworks"          -> { "query" }
      [] tool_name = "get_framework_info"         -> { "framework" }
      [] tool_name = "get_framework_docs"         -> { "framework", "section", "use_cache" }
      [] tool_name = "get_framework_examples"     -> { "framework", "pattern" }
      [] tool_name = "search_documentation"       -> { "framework", "query", "limit" }
      [] tool_name = "get_framework_context"      -> { "frameworks", "task_description" }
      [] tool_name = "analyze_code_compatibility" -> { "code", "frameworks" }
      [] tool_name = "check_framework_updates"    -> { "framework" }
      [] tool_name = "refresh_framework_cache"    -> { "framework", "force" }
      [] OTHER -> {}

\* The values a client supplies for an argument.
ArgValues(arg) ==
    CASE arg \in { "use_cache", "force" } -> { "True", "False" }
      [] arg = "limit"                    -> { "10", "5" }
      [] arg \in { "framework", "frameworks" } -> { "react" }
      [] OTHER                            -> { "hooks" }

Dicts(keys) ==
    UNION { { d \in [ ks -> UNION { ArgValues(k) : k \in ks } ] :
                \A k \in ks : d[k] \in ArgValues(k) } : ks \in SUBSET keys }

RequestedNames == ToolNames \cup { "no_such_tool", None }

\* The params of a tools/call request.
ToolsCallParams ==
    { NoneObj, Some(EmptyDict) }
      \cup { Some([ arguments |-> Some(EmptyDict) ]) }
      \cup { Some([ name |-> n ]) : n \in RequestedNames }
      \cup { Some([ name |-> n, arguments |-> NoneObj ]) : n \in RequestedNames }
      \cup UNION { { Some([ name |-> n, arguments |-> Some(d) ]) :
                        d \in Dicts(SchemaProperties(n)) } : n \in RequestedNames }

Ids == { None, "1" }

Bodies ==
    { [ kind |-> k, id |-> None, method |-> None, params |-> NoneObj ] :
        k \in { "undecodable", "invalid_json", "invalid_request" } }
      \cup { [ kind |-> "request", id |-> i, method |-> m, params |-> p ] :
               i \in Ids,
               m \in (METHOD_HANDLERS \ { "tools/call" }) \cup { "resources/list" },
               p \in { NoneObj, Some(EmptyDict) } }
      \cup { [ kind |-> "request", id |-> i, method |-> "tools/call", params |-> p ] :
               i \in Ids, p \in ToolsCallParams }

\* What the tool implementation a request reaches may do; a request that
\* reaches none has no outcome to draw.
NoOutcome == [ raises |-> FALSE, value |-> None ]

OutcomesFor(body) ==
    IF sse_endpoint(body, NoOutcome).call = NoneObj THEN { NoOutcome } ELSE ToolOutcomes

\* POST /sse: the application serves requests only between lifespan's yield
\* and its shutdown. The body is processed and the generator's events are
\* streamed back.
SseEndpoint ==
    /\ phase = "ready"
    /\ \E body \in Bodies : \E outcome \in OutcomesFor(body) :
         LET g == sse_endpoint(body, outcome)
         IN  /\ lastBody' = Some(body)
             /\ lastOutcome' = Some(outcome)
             /\ lastCall' = g.call
             /\ events' = g.events
    /\ UNCHANGED << env, phase, redis_client, registry_manager, doc_cache,
                    github_provider, website_provider, redis_closed >>
    /\ UNCHANGED coreVars

(***************************************************************************)
(* The documentation cache core: Tiered Cache Store and Freshness/Refresh  *)
(* Coordinator, as the tool implementations use them                       *)
(***************************************************************************)

\* One request-handling task per inbound tool call.
NTasks == 2
MaxTime == 2
MaxTtl == 1

Tasks == 1..NTasks

\* CacheKey (frameworkName, section-or-pattern, kind)
Keys == { << "react", None, "docs" >> }

\* ttl of a new entry: a configured duration, 0, or missing
TtlChoices == { NoneObj } \cup { Some(n) : n \in 0..MaxTtl }

CacheEntry(content, fetchedAt, ttl) ==
    [ content |-> content, fetchedAt |-> fetchedAt, ttl |-> ttl ]

\* A missing ttl counts as 0.
TtlOf(entry) == IF entry.ttl = NoneObj THEN 0 ELSE entry.ttl[1]

\* isStale(entry, now): now - entry.fetchedAt > entry.ttl
isStaleBug(entry, t) == t - entry.fetchedAt >= TtlOf(entry) + 2

isStale(entry, t) == t - entry.fetchedAt > TtlOf(entry)

\* Whether the cache was constructed with a remote tier.
RemoteTier == doc_cache # NoneObj /\ doc_cache[1].redis_client # None

\* What a getOrRefresh call returns: an entry (a hit, a fetched entry or a
\* stale one served on error) or the fetch failure.
Hit(entry)        == [ kind |-> "hit", entry |-> Some(entry) ]
Fetched(entry)    == [ kind |-> "fetched", entry |-> Some(entry) ]
ServedStale(entry) == [ kind |-> "stale", entry |-> Some(entry) ]
Failure           == [ kind |-> "failure", entry |-> NoneObj ]
NoResult          == [ kind |-> None, entry |-> NoneObj ]

NoCall == [ key |-> None, useCache |-> FALSE, forceRefresh |-> FALSE ]

Running(t) == pc[t] \in { "remote_get", "fetching", "waiting" }

\* The tools/call requests that reach getOrRefresh: get_framework_docs, which
\* passes its use_cache argument and never forces a refresh.
CoreRequests ==
    { Some([ name |-> "get_framework_docs", arguments |-> Some(d) ]) :
        d \in { a \in Dicts({ "framework", "use_cache" }) : "framework" \in DOMAIN a } }

CallOf(params) ==
    LET inv == handle_tools_call(params, NoOutcome).call[1]
    IN  [ key |-> << inv.kwargs["framework"], inv.kwargs["section"], "docs" >>,
          useCache |-> (inv.kwargs["use_cache"] = "True"),
          forceRefresh |-> FALSE ]

\* Step 3 of getOrRefresh for task t on key k, from the statistics st:
\* record a miss, then attach to the key's ticket or, atomically, create the
\* ticket and call the Content Provider.
AttachOrFetch(t, k, st) ==
    /\ stats' = [ st EXCEPT !.misses = @ + 1 ]
    /\ IF tickets[k] # NoneObj
       THEN /\ pc' = [ pc EXCEPT ![t] = "waiting" ]
            /\ attached' = [ attached EXCEPT ![t] = tickets[k][1].fetch ]
            /\ UNCHANGED << tickets, fetchCount >>
       ELSE /\ fetchCount' = fetchCount + 1
            /\ tickets' = [ tickets EXCEPT ![k] = Some([ fetch |-> fetchCount + 1, owner |-> t ]) ]
            /\ pc' = [ pc EXCEPT ![t] = "fetching" ]
            /\ attached' = [ attached EXCEPT ![t] = fetchCount + 1 ]
    /\ result' = [ result EXCEPT ![t] = NoResult ]

\* The call returns r to task t.
Returns(t, r) ==
    /\ pc' = [ pc EXCEPT ![t] = "done" ]
    /\ result' = [ result EXCEPT ![t] = r ]

\* A tool call enters getOrRefresh (steps 1 and 2, local tier): with
\* useCache and no forceRefresh the local tier is read without suspending; a
\* live entry is a hit, an expired one is evicted at this lookup. On a local
\* miss the remote tier, when configured, is asked (a suspension point).
BeginCall(t) ==
    /\ phase = "ready"
    /\ pc[t] = "idle"
    /\ \E params \in CoreRequests :
         LET c == CallOf(params)
             k == c.key
             e == localTier[k]
         IN  /\ call' = [ call EXCEPT ![t] = c ]
             /\ atCall' = [ atCall EXCEPT ![t] =
                    [ localTier |-> e,
                      cold |-> (e = NoneObj /\ remoteTier[k] = NoneObj),
                      stale |-> (e # NoneObj /\ isStale(e[1], now)) ] ]
             /\ IF c.useCache /\ ~c.forceRefresh
                THEN IF e # NoneObj /\ ~isStale(e[1], now)
                     THEN /\ stats' = [ stats EXCEPT !.hits = @ + 1 ]
                          /\ Returns(t, Hit(e[1]))
                          /\ attached' = [ attached EXCEPT ![t] = 0 ]
                          /\ UNCHANGED << localTier, tickets, fetchCount >>
                     ELSE /\ localTier' = [ localTier EXCEPT ![k] = NoneObj ]
                          /\ IF RemoteTier
                             THEN /\ pc' = [ pc EXCEPT ![t] = "remote_get" ]
                                  /\ attached' = [ attached EXCEPT ![t] = 0 ]
                                  /\ result' = [ result EXCEPT ![t] = NoResult ]
                                  /\ UNCHANGED << stats, tickets, fetchCount >>
                             ELSE AttachOrFetch(t, k, stats)
                ELSE /\ AttachOrFetch(t, k, stats)
                     /\ UNCHANGED localTier
    /\ overlap' = overlap \cup { { t, u } : u \in { v \in Tasks : v # t /\ Running(v) } }
    /\ UNCHANGED << now, remoteTier, ttlConfig >>
    /\ UNCHANGED serverVars

\* The remote tier answers (step 2, remote tier): a live entry is backfilled
\* into the local tier and is a hit; an absent or expired entry, or a remote
\* error (absorbed), is a miss.
RemoteGetReturns(t) ==
    /\ pc[t] = "remote_get"
    /\ \E remoteOk \in BOOLEAN :
         LET k == call[t].key
             e == IF remoteOk THEN remoteTier[k] ELSE NoneObj
         IN  IF e # NoneObj /\ ~isStale(e[1], now)
             THEN /\ localTier' = [ localTier EXCEPT ![k] = e ]
                  /\ stats' = [ stats EXCEPT !.hits = @ + 1 ]
                  /\ Returns(t, Hit(e[1]))
                  /\ UNCHANGED << attached, tickets, fetchCount >>
             ELSE /\ AttachOrFetch(t, k, stats)
                  /\ UNCHANGED localTier
    /\ UNCHANGED << now, remoteTier, call, ttlConfig, atCall, overlap >>
    /\ UNCHANGED serverVars

\* The ticket map once the ticket of key k is resolved: the ticket is
\* destroyed, whatever the outcome.
DestroyTicketBug(k) == tickets

DestroyTicket(k) == [ tickets EXCEPT ![k] = NoneObj ]

\* The tasks a resolved ticket releases: its owner and the tasks attached.
Released(k, fetch) ==
    { u \in Tasks : pc[u] \in { "fetching", "waiting" } /\ call[u].key = k /\ attached[u] = fetch }

\* The Content Provider returns content: the entry is built and put (local
\* tier synchronously, remote tier best-effort), the ticket is resolved for
\* every waiter with the entry and destroyed.
FetchSucceeds(t) ==
    /\ pc[t] = "fetching"
    /\ \E remoteOk \in BOOLEAN :
         LET k == call[t].key
             entry == CacheEntry(attached[t], now, ttlConfig)
             rel == Released(k, attached[t])
         IN  /\ localTier' = [ localTier EXCEPT ![k] = Some(entry) ]
             /\ remoteTier' = IF RemoteTier /\ remoteOk
                              THEN [ remoteTier EXCEPT ![k] = Some(entry) ]
                              ELSE remoteTier
             /\ tickets' = DestroyTicket(k)
             /\ stats' = [ stats EXCEPT !.lastRefresh = [ @ EXCEPT ![k] = Some(now) ] ]
             /\ pc' = [ u \in Tasks |-> IF u \in rel THEN "done" ELSE pc[u] ]
             /\ result' = [ u \in Tasks |-> IF u \in rel THEN Fetched(entry) ELSE result[u] ]
    /\ UNCHANGED << now, fetchCount, call, attached, ttlConfig, atCall, overlap >>
    /\ UNCHANGED serverVars

\* What a failed fetch resolves its ticket with: the prior entry of the local
\* tier if there is one (serve-stale-on-error), else the failure.
OnFailure(prior) == IF prior # NoneObj THEN ServedStale(prior[1]) ELSE Failure

\* The Content Provider fails: the failure is counted, nothing is written,
\* the ticket is resolved for every waiter and destroyed.
FetchFails(t) ==
    /\ pc[t] = "fetching"
    /\ LET k == call[t].key
           rel == Released(k, attached[t])
           r == OnFailure(localTier[k])
       IN  /\ tickets' = DestroyTicket(k)
           /\ stats' = [ stats EXCEPT !.failures = @ + 1 ]
           /\ pc' = [ u \in Tasks |-> IF u \in rel THEN "done" ELSE pc[u] ]
           /\ result' = [ u \in Tasks |-> IF u \in rel THEN r ELSE result[u] ]
    /\ UNCHANGED << now, localTier, remoteTier, fetchCount, call, attached,
                    ttlConfig, atCall, overlap >>
    /\ UNCHANGED serverVars

\* A waiter's request is cancelled: it stops waiting; the fetch and the
\* ticket are untouched.
CancelWaiter(t) ==
    /\ pc[t] = "waiting"
    /\ pc' = [ pc EXCEPT ![t] = "cancelled" ]
    /\ UNCHANGED << now, localTier, remoteTier, tickets, stats, fetchCount,
                    call, attached, result, ttlConfig, atCall, overlap >>
    /\ UNCHANGED serverVars

\* Time passes.
Tick ==
    /\ phase = "ready"
    /\ now < MaxTime
    /\ now' = now + 1
    /\ UNCHANGED << localTier, remoteTier, tickets, stats, fetchCount,
                    pc, call, attached, result, ttlConfig, atCall, overlap >>
    /\ UNCHANGED serverVars

InitCore ==
    /\ now = 0
    /\ localTier = [ k \in Keys |-> NoneObj ]
    /\ remoteTier = [ k \in Keys |-> NoneObj ]
    /\ tickets = [ k \in Keys |-> NoneObj ]
    /\ stats = [ hits |-> 0, misses |-> 0, failures |-> 0,
                 lastRefresh |-> [ k \in Keys |-> NoneObj ] ]
    /\ fetchCount = 0
    /\ pc = [ t \in Tasks |-> "idle" ]
    /\ call = [ t \in Tasks |-> NoCall ]
    /\ attached = [ t \in Tasks |-> 0 ]
    /\ result = [ t \in Tasks |-> NoResult ]
    /\ atCall = [ t \in Tasks |->
                    [ localTier |-> NoneObj, cold |-> FALSE, stale |-> FALSE ] ]
    /\ overlap = {}

InitServer ==
    /\ env \in Environments
    /\ phase = "starting"
    /\ redis_client = None
    /\ registry_manager = None
    /\ doc_cache = NoneObj
    /\ github_provider = None
    /\ website_provider = None
    /\ redis_closed = FALSE
    /\ lastBody = NoneObj
    /\ lastOutcome = NoneObj
    /\ lastCall = NoneObj
    /\ events = << >>

Init == InitServer /\ InitCore /\ ttlConfig = NoneObj

Next ==
    \/ LifespanStartup
    \/ SseEndpoint
    \/ LifespanShutdown

vars == << serverVars, coreVars >>

Spec == Init /\ [][Next]_vars

\* The core in a started server: the environments in which startup succeeds,
\* with and without a reachable remote tier.
CoreEnvironments ==
    { e \in Environments : /\ e.registry = "ok"
                           /\ e.redis = "ok"
                           /\ e.REDIS_URL # DefaultRedisUrl }

InitWithCore ==
    /\ InitServer
    /\ InitCore
    /\ env \in CoreEnvironments
    /\ ttlConfig \in TtlChoices

NextCore ==
    \/ LifespanStartup
    \/ Tick
    \/ \E t \in Tasks : BeginCall(t)
    \/ \E t \in Tasks : RemoteGetReturns(t)
    \/ \E t \in Tasks : FetchSucceeds(t)
    \/ \E t \in Tasks : FetchFails(t)
    \/ \E t \in Tasks : CancelWaiter(t)

SpecCore == InitWithCore /\ [][NextCore]_vars

(***************************************************************************)
(* Properties of the server                                                *)
(***************************************************************************)

Served == lastBody # NoneObj
Body == lastBody[1]
IsToolsCall == Served /\ Body.kind = "request" /\ Body.method = "tools/call"
HasName == Body.params # NoneObj /\ "name" \in DOMAIN Body.params[1]
RequestedName == Body.params[1]["name"]
\* The arguments dict of the request ({} when omitted or null).
Arguments ==
    IF HasName /\ "arguments" \in DOMAIN Body.params[1]
          /\ Body.params[1]["arguments"] # NoneObj
    THEN Body.params[1]["arguments"][1]
    ELSE EmptyDict
RemoteConfigured == get_redis_url(env) # DefaultRedisUrl
Started == phase \in { "ready", "stopped" }

\* C2: with a non-default Redis URL whose connection or ping fails, startup
\* fails only if the registry fails, and once started the globals are those of
\* a server with no remote tier: redis_client is None and the documentation
\* cache was constructed with redis_client = None.
C2_RemoteTierDegradation ==
    (RemoteConfigured /\ env.redis # "ok") =>
        /\ (phase = "failed" => env.registry = "fails")
        /\ (Started => /\ redis_client = None
                       /\ doc_cache = Some([ redis_client |-> None ]))

C2_Witness ==
    /\ phase = "ready"
    /\ RemoteConfigured
    /\ env.redis = "ping_fails"
    /\ doc_cache = Some([ redis_client |-> None ])

\* C3: a tools/call that cannot produce content (no params or no tool name, a
\* name that is not an advertised tool, or a tool implementation that raised)
\* emits one event whose error is set and whose result key is absent.
C3_FailureIsExplicitError ==
    (IsToolsCall /\ (\/ ~HasName
                     \/ RequestedName \notin ToolNames
                     \/ (lastCall # NoneObj /\ lastOutcome[1].raises))) =>
        /\ Len(events) = 1
        /\ "error" \in events[1].keys
        /\ events[1].error # NoneObj
        /\ "result" \notin events[1].keys

C3_Witness ==
    /\ IsToolsCall
    /\ lastCall # NoneObj
    /\ lastCall[1].fn = "documentation.get_framework_docs"
    /\ lastOutcome[1].raises
    /\ "error" \in events[1].keys

\* C6: when the registry fails to initialize, lifespan never yields: the
\* server is never ready and serves no request; every request served was
\* served with an initialized registry.
C6_RegistryFailureIsFatal ==
    /\ (env.registry = "fails" => phase \in { "starting", "failed" } /\ ~Served)
    /\ (Served => registry_manager = "initialized")

C6_Witness ==
    /\ env.registry = "fails"
    /\ phase = "failed"
    /\ registry_manager = "constructed"

\* C7: every tool implementation is called with the documented default for
\* an omitted argument (use_cache True, limit 10, force False, framework
\* None), and with the supplied value for every argument the request gave.
C7_InterfaceDefaults ==
    (IsToolsCall /\ lastCall # NoneObj) =>
        LET fn == lastCall[1].fn
            kw == lastCall[1].kwargs
        IN  /\ \A k \in DOMAIN Arguments \cap DOMAIN kw : kw[k] = Arguments[k]
            /\ (fn = "documentation.get_framework_docs" /\ "use_cache" \notin DOMAIN Arguments)
                  => kw["use_cache"] = "True"
            /\ (fn = "documentation.search_documentation" /\ "limit" \notin DOMAIN Arguments)
                  => kw["limit"] = "10"
            /\ (fn = "updates.refresh_framework_cache" /\ "force" \notin DOMAIN Arguments)
                  => kw["force"] = "False"
            /\ (fn = "updates.refresh_framework_cache" /\ "framework" \notin DOMAIN Arguments)
                  => kw["framework"] = None
            /\ SchemaProperties(RequestedName) \subseteq DOMAIN kw

C7_Witness ==
    /\ IsToolsCall
    /\ lastCall # NoneObj
    /\ lastCall[1].fn = "documentation.search_documentation"
    /\ "limit" \notin DOMAIN Arguments
    /\ lastCall[1].kwargs["limit"] = "10"

\* C10: tools/list returns the TOOLS table; a tools/call naming an advertised
\* tool never fails with "Unknown tool"; a tool implementation is invoked only
\* for an advertised name, and it is the implementation of that name; a
\* tools/call with any other name or with no name emits an error and invokes
\* no implementation.
C10_AdvertisedToolsAreDispatched ==
    /\ (Served /\ Body.kind = "request" /\ Body.method = "tools/list") =>
          /\ events[1].result = Result("tools", TOOLS)
          /\ lastCall = NoneObj
    /\ IsToolsCall =>
          /\ (HasName /\ RequestedName \in ToolNames) =>
                (events[1].error # NoneObj => events[1].error[1].message # "Unknown tool")
          /\ lastCall # NoneObj =>
                /\ HasName
                /\ RequestedName \in ToolNames
                /\ lastCall[1].fn = Implementation(RequestedName)
          /\ (~HasName \/ RequestedName \notin ToolNames) =>
                /\ lastCall = NoneObj
                /\ events[1].error # NoneObj
                /\ "result" \notin events[1].keys

C10_Witness ==
    /\ IsToolsCall
    /\ HasName
    /\ RequestedName = "get_registry_stats"
    /\ lastCall # NoneObj
    /\ "result" \in events[1].keys

\* The code of the error an event carries (0: the event carries no error).
ErrorCode(ev) == IF ev.error = NoneObj THEN 0 ELSE ev.error[1].code

\* What the handler of the served request did, when its method has one.
Handled == Handler(Body.method, Body.params, lastOutcome[1])

\* The response to the served request: exactly one event, whose error code or
\* result is the one of the request's case, and which carries the request's
\* id whenever the request was parsed.
OneResponse ==
    /\ Len(events) = 1
    /\ Body.kind \in { "undecodable", "invalid_json" } =>
          ErrorCode(events[1]) = -32700
    /\ Body.kind = "invalid_request" =>
          ErrorCode(events[1]) = -32603
    /\ Body.kind = "request" =>
          /\ events[1].id = Body.id
          /\ Body.method \notin METHOD_HANDLERS =>
                /\ ErrorCode(events[1]) = -32601
                /\ lastCall = NoneObj
          /\ (Body.method \in METHOD_HANDLERS /\ Handled.raised) =>
                ErrorCode(events[1]) = -32603
          /\ (Body.method \in METHOD_HANDLERS /\ ~Handled.raised) =>
                /\ events[1].error = NoneObj
                /\ events[1].result = Handled.value

\* The served body was UTF-8 and the handler's result, if any, was one
\* json.dumps encodes.
Encodable ==
    /\ ~DecodeRaises(Body)
    /\ ~(lastCall # NoneObj /\ ~lastOutcome[1].raises
           /\ lastOutcome[1].value = "datetime")

\* C11: one response per request: every request body posted to /sse gets
\* exactly one data event: code -32700 when the body is not valid JSON, -32603
\* when it is valid JSON but not a valid JSON-RPC request or the handler
\* raises, -32601 when the method has no handler (and nothing is invoked),
\* otherwise the handler's result; whenever the request was parsed, the event
\* carries the request's id.
C11_OneResponsePerRequest == Served => OneResponse

\* The same, for the UTF-8 bodies whose handler's result json.dumps encodes.
OneResponsePerEncodableRequest == (Served /\ Encodable) => OneResponse

(***************************************************************************)
(* Properties of the cache core                                           *)
(***************************************************************************)

Present(tier, k) == tier[k] # NoneObj
Cold(t) == atCall[t].cold
Called(t) == pc[t] # "idle"
InFlight(k) == { t \in Tasks : pc[t] = "fetching" /\ call[t].key = k }
StoredEntries ==
    { localTier[k][1] : k \in { x \in Keys : Present(localTier, x) } }
      \cup { remoteTier[k][1] : k \in { x \in Keys : Present(remoteTier, x) } }
ProbeTimes == 0..(MaxTime + MaxTtl + 1)

\* C1: two getOrRefresh calls on the same key that were in progress at a
\* same instant, both issued when neither tier held an entry for the key,
\* share one Content Provider fetch and return the same entry or the same
\* failure; at most one fetch per key is in flight.
C1_SingleFlight ==
    /\ \A k \in Keys : Cardinality(InFlight(k)) <= 1
    /\ \A p \in overlap : \A t \in p, u \in p :
         (t # u /\ call[t].key = call[u].key /\ Cold(t) /\ Cold(u)) =>
            /\ (attached[t] # 0 /\ attached[u] # 0) => attached[t] = attached[u]
            /\ (pc[t] = "done" /\ pc[u] = "done") => result[t] = result[u]

\* The part of C1 that holds whatever the tiers: at most one fetch per key is
\* in flight, and it is the one the key's ticket names.
AtMostOneFetchInFlight ==
    \A k \in Keys : Cardinality(InFlight(k)) <= 1

\* C1 without a remote tier.
SingleFlightLocalOnly == ~RemoteTier => C1_SingleFlight

\* C4: a call issued while the local tier held a stale entry for its key, and
\* whose refresh failed in the Content Provider, returns that stale entry, and
\* the failure was counted.
C4_ServeStaleOnError ==
    \A t \in Tasks :
        (pc[t] = "done" /\ atCall[t].stale /\ result[t].kind \in { "failure", "stale" }) =>
            /\ result[t] = ServedStale(atCall[t].localTier[1])
            /\ stats.failures >= 1

\* C4 for the calls that skip the cache read (use_cache false).
ServeStaleWhenLookupSkipped ==
    \A t \in Tasks :
        (pc[t] = "done" /\ atCall[t].stale /\ result[t].kind \in { "failure", "stale" }
           /\ (~call[t].useCache \/ call[t].forceRefresh)) =>
            \/ result[t] = ServedStale(atCall[t].localTier[1])
            \/ \E u \in Tasks : u # t /\ Called(u) /\ call[u].useCache /\ ~call[u].forceRefresh

\* C5: an entry fetched at t0 with ttl T is fresh at every probe time before
\* t0 + T and stale at every probe time after it; and a read with use_cache
\* (no forced refresh) that finds a fresh entry in the local tier returns it
\* at once, counts a hit and calls no Content Provider.
TtlFreshBeforeStaleAfter ==
    \A e \in StoredEntries : \A probe \in ProbeTimes :
        /\ probe < e.fetchedAt + TtlOf(e) => ~isStale(e, probe)
        /\ probe > e.fetchedAt + TtlOf(e) => isStale(e, probe)

FreshReadIssuesNoFetch ==
    \A t \in Tasks :
        LET k == call'[t].key
        IN  (/\ pc[t] = "idle" /\ pc'[t] # "idle"
             /\ call'[t].useCache /\ ~call'[t].forceRefresh
             /\ Present(localTier, k)
             /\ now < localTier[k][1].fetchedAt + TtlOf(localTier[k][1])) =>
               /\ pc'[t] = "done"
               /\ result'[t] = Hit(localTier[k][1])
               /\ fetchCount' = fetchCount
               /\ stats'.hits = stats.hits + 1
               /\ tickets' = tickets

C5_TtlCorrectness == [](TtlFreshBeforeStaleAfter) /\ [][FreshReadIssuesNoFetch]_vars

C5_Witness ==
    \E t \in Tasks :
        /\ pc[t] = "done"
        /\ result[t].kind = "hit"
        /\ TtlOf(result[t].entry[1]) = 1
        /\ now = result[t].entry[1].fetchedAt
        /\ fetchCount = 1
        /\ stats.hits = 1

\* C8: an entry whose ttl is 0 or missing is stale at every probe time from
\* the instant it was fetched on, and no use_cache read is a hit on it.
C8_ZeroTtlAlwaysStale ==
    /\ \A e \in StoredEntries : \A probe \in ProbeTimes :
          (TtlOf(e) = 0 /\ probe >= e.fetchedAt) => isStale(e, probe)
    /\ \A t \in Tasks :
          result[t].kind = "hit" => TtlOf(result[t].entry[1]) # 0

\* C8 from the first instant after the fetch on.
ZeroTtlStaleAfterFetch ==
    /\ \A e \in StoredEntries : \A probe \in ProbeTimes :
          (TtlOf(e) = 0 /\ probe > e.fetchedAt) => isStale(e, probe)
    /\ \A t \in Tasks :
          (result[t].kind = "hit" /\ TtlOf(result[t].entry[1]) = 0)
              => atCall[t].localTier = NoneObj \/ ~atCall[t].stale

\* C9: a key has a ticket exactly while a Content Provider fetch for it is in
\* flight, the ticket names that fetch, and every task waiting on the key is
\* attached to that ticket: once the fetch completes no ticket and no waiter
\* remain, and a later miss starts a new fetch.
C9_TicketLifecycle ==
    /\ \A k \in Keys :
          /\ Present(tickets, k) <=> InFlight(k) # {}
          /\ Present(tickets, k) =>
                InFlight(k) = { tickets[k][1].owner }
                  /\ attached[tickets[k][1].owner] = tickets[k][1].fetch
    /\ \A t \in Tasks :
          pc[t] = "waiting" =>
             /\ Present(tickets, call[t].key)
             /\ attached[t] = tickets[call[t].key][1].fetch
    /\ \A t \in Tasks, u \in Tasks :
          (pc[t] = "fetching" /\ pc[u] = "done" /\ attached[u] # 0)
              => attached[t] # attached[u]

C9_Witness ==
    \E t \in Tasks, u \in Tasks :
        /\ pc[t] = "done" /\ attached[t] = 1 /\ result[t].kind = "failure"
        /\ pc[u] = "fetching" /\ attached[u] = 2
        /\ call[t].key = call[u].key

====
